---------------------------- MODULE Spec2Model ----------------------------
(***************************************************************************)
(* Model of the aggregation service of cricsinfo-api:                      *)
(*   app/services/scores_service.py  (_merge, _is_today_match,             *)
(*                                    ScoresService)                       *)
(*   app/sources/cricinfo_rss.py, cricinfo_desktop.py, espn_scores.py      *)
(*   app/api/v1/routes/live_score.py                                       *)
(*   app/core/cache.py is not part of the sources at hand; the TTL cache   *)
(*   is modelled from section 4.5 of the specification.                    *)
(*                                                                         *)
(* Optional[T] values are modelled as sequences of length at most one:     *)
(* None is <<>> and a present value v is <<v>>.  Calendar dates are day    *)
(* numbers, the clock counts seconds.                                      *)
(***************************************************************************)
EXTENDS Integers, Sequences, FiniteSets, TLC

VARIABLES
    now,      \* the wall clock, in seconds (datetime.now, the cache's clock)
    ticks,    \* how many times the model has advanced the clock
    cache,    \* app.core.cache.cache: key -> [value, expires]
    call,     \* what the last completed request did and returned
    mOld,     \* _merge harness: the argument old
    mNew,     \* _merge harness: the argument new
    mOut,     \* _merge harness: None before the call, <<result>> after
    recorded, \* history: <<zone, match_id>> -> [url, at], the url-map line
              \* a list build wrote last for the id, and when
    pIn,      \* parsing harness: the text given to the function
    pOut,     \* parsing harness: what the calls made so far returned
    vCand,    \* fetch_live_verified: candidate_urls
    vPc,      \* fetch_live_verified: task -> "wait" (for the semaphore),
              \* "fetch" (holding it, the page fetch in flight) or "done"
    vPage,    \* fetch_live_verified: task -> what its page fetch gave
    vSem,     \* fetch_live_verified: the value of the semaphore
    vPeak,    \* history: the most page fetches that were in flight at once
    vOut,     \* fetch_live_verified: None, or <<the urls of the matches returned>>
    racers,   \* concurrent get_match_list calls: call -> its position and locals
    finished  \* history: the calls that built a list, in the order they finished

serviceVars == <<now, ticks, cache, call, recorded>>
mergeVars == <<mOld, mNew, mOut>>
parseVars == <<pIn, pOut>>
verifyVars == <<vCand, vPc, vPage, vSem, vPeak, vOut>>
raceVars == <<racers, finished>>

\* the variables of the harnesses, which the requests leave alone
harness == <<mergeVars, parseVars, verifyVars, raceVars>>

vars == <<now, ticks, cache, call, recorded, harness>>

-----------------------------------------------------------------------------
(* Bounds of the model *)

\* at most this many optional fields of a generated Match are not None
MaxFilled == 1

\* make_uid folded into 1..UidSpace (the code's space is 32 bits)
UidSpace == 16

\* the clock is advanced at most this many times
MaxTicks == 2

\* a feed of any kind of block has at most MaxItems items
MaxItems == 3

\* a feed of dated results and fixtures has at most MaxLong items
MaxLong == 7

\* a block text given to classify_status is made of at most MaxWords phrases
MaxWords == 2

\* fetch_live_verified is given at most MaxCandidates candidate urls
MaxCandidates == 5

\* this many get_match_list calls run concurrently
RaceCalls == 2

\* settings.MAX_LIVE_VERIFY and settings.MAX_CONCURRENCY (config.py, lines 18
\* and 21) are set by the environment (APP_MAX_LIVE_VERIFY,
\* APP_MAX_CONCURRENCY) and default to 8 and 5; the model runs a deployment
\* configured with smaller values
MAX_LIVE_VERIFY == 4
MAX_CONCURRENCY == 2

-----------------------------------------------------------------------------
(* Values *)

None == <<>>
Some(v) == <<v>>

\* MatchStatus
LIVE == "LIVE"
UPCOMING == "UPCOMING"
RESULT == "RESULT"
UNKNOWN == "UNKNOWN"
MatchStatus == {LIVE, UPCOMING, RESULT, UNKNOWN}
Known(st) == st \in {LIVE, UPCOMING, RESULT}

\* the three adapters of ScoresService.__init__, in the order of `sources`
Sources == <<"cricinfo_rss", "cricinfo_desktop", "espn_scores">>
SourceNames == {Sources[i] : i \in 1..Len(Sources)}

\* optional fields of Match: the str ones and the date ones
StrFields == {"series", "title", "description",
              "score_summary", "result_summary", "note"}
DateFields == {"start_date", "end_date"}

\* the URLs of the match pages, as the upstream sites link them
UrlSeq == <<"u1", "u2", "u3", "u4", "u5", "u6", "u7", "u8", "u9">>
Urls == {UrlSeq[i] : i \in 1..Len(UrlSeq)}

\* a Match with every optional field left at its default
Match(id, src, url, st) ==
    [match_id |-> id, source |-> src, url |-> url,
     series |-> None, title |-> None, description |-> None,
     status |-> st,
     start_date |-> None, end_date |-> None,
     score_summary |-> None, result_summary |-> None, note |-> None]

\* make_uid(source, url): a deterministic checksum of "{source}|{url}";
\* distinct pairs may collide
SrcCode(src) == CHOOSE i \in 1..Len(Sources) : Sources[i] = src
UrlCode(url) == CHOOSE i \in 1..Len(UrlSeq) : UrlSeq[i] = url
make_uid(src, url) == ((SrcCode(src) + UrlCode(url)) % UidSpace) + 1

-----------------------------------------------------------------------------
(* _merge *)

\* mutant: the incoming value, when there is one, overwrites the prior one
MergeOptional_LastWins(dv, v, isStr) ==
    IF v = None THEN dv ELSE v

\* mutant: an empty string is normalised to None while merging
MergeOptional_Normalising(dv, v, isStr) ==
    IF v = None THEN dv
    ELSE IF dv = None \/ (isStr /\ dv = Some(""))
         THEN (IF isStr /\ v = Some("") THEN None ELSE v)
    ELSE dv

\* one turn of the loop `for k, v in nd.items()` for an Optional field:
\* dv is data.get(k), v the incoming value, isStr whether dv can be a str
MergeOptional(dv, v, isStr) ==
    IF v = None THEN dv
    ELSE IF dv = None \/ (isStr /\ dv = Some("")) THEN v
    ELSE dv

\* mutant: any known incoming status overwrites the prior one
MergeStatus_LastKnownWins(ds, v) ==
    IF v # UNKNOWN THEN v ELSE ds

\* the turn for k == "status"
MergeStatus(ds, v) ==
    IF ds = UNKNOWN /\ v # UNKNOWN THEN v ELSE ds

\* the turn for the required str fields, then `nd.get(k) or data[k]`
MergeLatest(dv, v) ==
    LET looped == IF dv = "" THEN v ELSE dv
    IN  IF v # "" THEN v ELSE looped

_merge(old, new) ==
    [match_id       |-> old.match_id,
     source         |-> MergeLatest(old.source, new.source),
     url            |-> MergeLatest(old.url, new.url),
     series         |-> MergeOptional(old.series, new.series, TRUE),
     title          |-> MergeOptional(old.title, new.title, TRUE),
     description    |-> MergeOptional(old.description, new.description, TRUE),
     status         |-> MergeStatus(old.status, new.status),
     start_date     |-> MergeOptional(old.start_date, new.start_date, FALSE),
     end_date       |-> MergeOptional(old.end_date, new.end_date, FALSE),
     score_summary  |-> MergeOptional(old.score_summary, new.score_summary, TRUE),
     result_summary |-> MergeOptional(old.result_summary, new.result_summary, TRUE),
     note           |-> MergeOptional(old.note, new.note, TRUE)]


-----------------------------------------------------------------------------
(* Settings, time zones, the clock *)

\* Settings.TZ, Settings.LIST_CACHE_TTL_SECONDS, DETAIL_CACHE_TTL_SECONDS
SettingsTZ == "Asia/Kolkata"
LIST_CACHE_TTL_SECONDS == 15
DETAIL_CACHE_TTL_SECONDS == 15
\* ttl_seconds of the url-map entry
URLMAP_TTL_SECONDS == 3600

\* the zone names ZoneInfo knows (any other name raises)
ZoneNames == {"Asia/Kolkata", "UTC"}
UtcOffset(zone) == IF zone = "Asia/Kolkata" THEN 19800 ELSE 0
SecondsPerDay == 24 * 3600

\* mutant: a name that is no zone falls back to the configured zone
_tz_FallsBack(tz_name) ==
    IF tz_name # None /\ tz_name[1] \in ZoneNames THEN tz_name ELSE Some(SettingsTZ)

\* _tz(tz_name): <<key>> of the zone, None when ZoneInfo raises
_tz(tz_name) ==
    LET name == IF tz_name = None \/ tz_name = Some("") THEN SettingsTZ
                ELSE tz_name[1]
    IN  IF name \in ZoneNames THEN Some(name) ELSE None

\* _today(tz) at clock t: the calendar day, as a day number
_today(zone, t) == ((t + UtcOffset(zone)) \div SecondsPerDay) + 1

-----------------------------------------------------------------------------
(* The TTL cache (app.core.cache) *)

\* mutant: an entry is never taken for expired
CacheGet_NeverExpires(c, key, t) ==
    IF key \in DOMAIN c THEN Some(c[key].value) ELSE None

CacheGet(c, key, t) ==
    IF key \in DOMAIN c /\ t < c[key].expires THEN Some(c[key].value) ELSE None

CacheSet(c, key, value, ttl_seconds, t) ==
    [k \in (DOMAIN c) \cup {key} |->
        IF k = key THEN [value |-> value, expires |-> t + ttl_seconds] ELSE c[k]]

-----------------------------------------------------------------------------
(* _is_today_match *)

\* mutant: a match of several days counts on its first day only
_is_today_match_StartOnly(m, today) ==
    IF m.start_date # None THEN m.start_date[1] = today ELSE TRUE

_is_today_match(m, today) ==
    IF m.start_date # None /\ m.end_date # None
    THEN m.start_date[1] <= today /\ today <= m.end_date[1]
    ELSE IF m.start_date # None THEN m.start_date[1] = today
    ELSE TRUE

-----------------------------------------------------------------------------
(* _fetch_all_sources *)

\* the position of match_id in the dict `merged` (kept in insertion order),
\* 0 when it is not a key
KeyIndex(merged, id) ==
    IF \E i \in 1..Len(merged) : merged[i].match_id = id
    THEN CHOOSE i \in 1..Len(merged) : merged[i].match_id = id
    ELSE 0

\* lines 65-68: one turn of `for m in matches`
Absorb(merged, m) ==
    LET i == KeyIndex(merged, m.match_id)
    IN  IF i # 0 THEN [merged EXCEPT ![i] = _merge(merged[i], m)]
        ELSE Append(merged, m)

RECURSIVE AbsorbAll(_, _)
AbsorbAll(merged, matches) ==
    IF matches = <<>> THEN merged
    ELSE AbsorbAll(Absorb(merged, Head(matches)), Tail(matches))

\* lines 60-63: what one adapter contributes; an adapter that raised, nothing
Contribution(result) ==
    IF result.raised THEN <<>> ELSE result.matches

\* results[i] is what Sources[i].fetch_matches() did: [raised, matches]
RECURSIVE FetchFrom(_, _, _)
FetchFrom(i, merged, results) ==
    IF i > Len(Sources) THEN merged
    ELSE FetchFrom(i + 1, AbsorbAll(merged, Contribution(results[i])), results)

\* mutant: one try/except around the whole loop, so that one adapter that
\* raises leaves the cycle with nothing
_fetch_all_sources_FailFast(results) ==
    IF \E i \in 1..Len(Sources) : results[i].raised THEN <<>>
    ELSE FetchFrom(1, <<>>, results)

_fetch_all_sources(results) == FetchFrom(1, <<>>, results)

-----------------------------------------------------------------------------
(* get_match_list: the list assembly of lines 84-134 *)

\* the slice [:5] of lines 102 and 106
RECENT_LIMIT == 5
FUTURE_LIMIT == 5
\* date(1970,1,1) and date(9999,1,1) as day numbers: before and after every
\* day of the model
DATE_1970 == 0
DATE_9999 == 9999

\* mutant: the slice is forgotten
Prefix_NoLimit(seq, n) == seq

\* seq[:n]
Prefix(seq, n) == SubSeq(seq, 1, IF Len(seq) < n THEN Len(seq) ELSE n)

\* sorted(seq, key=...) and sorted(seq, key=..., reverse=True), both stable;
\* keys[i] is the key of seq[i], and the sort is done on the positions
RECURSIVE InsertSorted(_, _, _, _)
InsertSorted(sorted, i, keys, reverse) ==
    IF sorted = <<>> THEN <<i>>
    ELSE LET last  == sorted[Len(sorted)]
             stays == IF reverse THEN keys[last] >= keys[i] ELSE keys[last] <= keys[i]
         IN  IF stays THEN Append(sorted, i)
             ELSE Append(InsertSorted(SubSeq(sorted, 1, Len(sorted) - 1), i, keys, reverse),
                         last)

RECURSIVE SortedFrom(_, _, _, _)
SortedFrom(done, i, keys, reverse) ==
    IF i > Len(keys) THEN done
    ELSE SortedFrom(InsertSorted(done, i, keys, reverse), i + 1, keys, reverse)

Sorted(seq, keys, reverse) ==
    LET order == SortedFrom(<<>>, 1, keys, reverse)
    IN  [k \in 1..Len(seq) |-> seq[order[k]]]

\* line 101: x.end_date or x.start_date or date(1970,1,1)
PastKey(x) ==
    IF x.end_date # None THEN x.end_date[1]
    ELSE IF x.start_date # None THEN x.start_date[1]
    ELSE DATE_1970

\* line 105: x.start_date or date(9999,1,1)
FutureKey(x) ==
    IF x.start_date # None THEN x.start_date[1] ELSE DATE_9999

\* line 100
IsPast(m, today) ==
    \/ m.end_date # None /\ m.end_date[1] < today
    \/ m.start_date # None /\ m.start_date[1] < today /\ m.status = RESULT

\* line 104
IsFuture(m, today) ==
    \/ m.start_date # None /\ m.start_date[1] > today
    \/ m.status = UPCOMING

\* line 84: {m.match_id: m.url for m in all_matches if m.url}
UrlMap(all_matches) ==
    LET kept == { i \in 1..Len(all_matches) : all_matches[i].url # "" }
    IN  [id \in { all_matches[i].match_id : i \in kept } |->
            all_matches[CHOOSE i \in kept :
                           /\ all_matches[i].match_id = id
                           /\ \A j \in kept : all_matches[j].match_id = id => j <= i].url]

\* mutant: the upcoming matches are put before the live ones
ItemsOf_UpcomingFirst(has_any_today, live, upcoming, results_today, recent, future) ==
    IF ~has_any_today THEN recent \o future
    ELSE IF live # <<>> THEN upcoming \o live \o results_today
    ELSE IF upcoming # <<>> THEN upcoming \o results_today
    ELSE results_today

\* lines 108-123: items
ItemsOf(has_any_today, live, upcoming, results_today, recent, future) ==
    IF ~has_any_today THEN recent \o future
    ELSE IF live # <<>> THEN live \o upcoming \o results_today
    ELSE IF upcoming # <<>> THEN upcoming \o results_today
    ELSE results_today

\* lines 87-134: the MatchListResponse built from the reconciled matches
MatchListResponse(all_matches, today, zone, t) ==
    LET IsToday(m)    == _is_today_match(m, today)
        IsLive(m)     == m.status = LIVE
        IsUpcoming(m) == m.status = UPCOMING
        IsResult(m)   == m.status = RESULT
        Past(m)       == IsPast(m, today)
        Fut(m)        == IsFuture(m, today)
        today_matches == SelectSeq(all_matches, IsToday)
        live          == SelectSeq(today_matches, IsLive)
        upcoming      == SelectSeq(today_matches, IsUpcoming)
        results_today == SelectSeq(today_matches, IsResult)
        has_any_today == Len(today_matches) > 0
        past   == SelectSeq(all_matches, Past)
        fut    == SelectSeq(all_matches, Fut)
        recent == IF has_any_today THEN <<>>
                  ELSE Prefix(Sorted(past, [i \in 1..Len(past) |-> PastKey(past[i])], TRUE),
                              RECENT_LIMIT)
        future == IF has_any_today THEN <<>>
                  ELSE Prefix(Sorted(fut, [i \in 1..Len(fut) |-> FutureKey(fut[i])], FALSE),
                              FUTURE_LIMIT)
        items == ItemsOf(has_any_today, live, upcoming, results_today, recent, future)
        mode  == IF ~has_any_today THEN "mixed"
                 ELSE IF live # <<>> THEN "live"
                 ELSE IF upcoming # <<>> THEN "upcoming"
                 ELSE "mixed"
    IN  [mode |-> mode, timezone |-> zone, generated_at |-> t,
         items |-> items, live |-> live,
         upcoming |-> IF has_any_today THEN upcoming ELSE future,
         recent |-> recent]

\* mutant: the url-map is written only when the cache holds none
ListBuild_KeepsUrlMap(c, t, zone, today, results) ==
    LET all_matches == _fetch_all_sources(results)
        c1   == IF CacheGet(c, <<"urlmap", zone>>, t) # None THEN c
                ELSE CacheSet(c, <<"urlmap", zone>>, UrlMap(all_matches),
                              URLMAP_TTL_SECONDS, t)
        resp == MatchListResponse(all_matches, today, zone, t)
        c2   == CacheSet(c1, <<"list", zone, today>>, resp, LIST_CACHE_TTL_SECONDS, t)
    IN  [raised |-> FALSE, hit |-> FALSE, fetched |-> TRUE, cache |-> c2,
         today |-> today, all_matches |-> all_matches, resp |-> Some(resp)]

\* lines 81-137: what follows the fetches, at clock t with cache c: the
\* matches are reconciled, the url-map and the list are written, the list
\* is returned; today is the day computed on line 74
ListBuild(c, t, zone, today, results) ==
    LET all_matches == _fetch_all_sources(results)
        c1   == CacheSet(c, <<"urlmap", zone>>, UrlMap(all_matches),
                         URLMAP_TTL_SECONDS, t)
        resp == MatchListResponse(all_matches, today, zone, t)
        c2   == CacheSet(c1, <<"list", zone, today>>, resp, LIST_CACHE_TTL_SECONDS, t)
    IN  [raised |-> FALSE, hit |-> FALSE, fetched |-> TRUE, cache |-> c2,
         today |-> today, all_matches |-> all_matches, resp |-> Some(resp)]

\* get_match_list(timezone) at clock t with cache c, the adapters answering
\* `results` if they are asked: what it returns and the cache it leaves
ListOutcome(c, t, timezone, results) ==
    LET z == _tz(timezone)
    IN  IF z = None
        THEN [raised |-> TRUE, hit |-> FALSE, fetched |-> FALSE, cache |-> c,
              today |-> 0, all_matches |-> <<>>, resp |-> None]
        ELSE
        LET zone   == z[1]
            today  == _today(zone, t)
            key    == <<"list", zone, today>>
            cached == CacheGet(c, key, t)
        IN  IF cached # None
            THEN [raised |-> FALSE, hit |-> TRUE, fetched |-> FALSE, cache |-> c,
                  today |-> today, all_matches |-> <<>>, resp |-> cached]
            ELSE ListBuild(c, t, zone, today, results)

-----------------------------------------------------------------------------
(* get_match_detail *)

\* mutant: the list is refreshed a second time when the first refresh built
\* a new list
RefreshList_Twice(c, t, zone, results, known) ==
    IF known THEN [cache |-> c, list_calls |-> 0, list_fetches |-> 0]
    ELSE LET first == ListOutcome(c, t, Some(zone), results)
             again == ListOutcome(first.cache, t, Some(zone), results)
         IN  [cache |-> again.cache,
              list_calls |-> IF first.fetched THEN 2 ELSE 1,
              list_fetches |-> IF first.fetched THEN 1 ELSE 0]

\* lines 151-154: `if not match_url:` one get_match_list, whose result is
\* dropped; known says that the url-map already had the URL
RefreshList(c, t, zone, results, known) ==
    IF known THEN [cache |-> c, list_calls |-> 0, list_fetches |-> 0]
    ELSE LET refresh == ListOutcome(c, t, Some(zone), results)
         IN  [cache |-> refresh.cache, list_calls |-> 1,
              list_fetches |-> IF refresh.fetched THEN 1 ELSE 0]

\* lines 149-150: the URL the url-map of cache c has for match_id, if any
UrlOf(c, t, zone, match_id) ==
    LET got     == CacheGet(c, <<"urlmap", zone>>, t)
        url_map == IF got = None THEN <<>> ELSE got[1]
    IN  IF match_id \in DOMAIN url_map /\ url_map[match_id] # ""
        THEN Some(url_map[match_id]) ELSE None

\* lines 156-175: what follows the refresh; match_url is the URL looked up
\* in the cache the refresh left
DetailResolved(refresh, match_url, t, match_id, zone, excerpt) ==
    IF match_url = None
    THEN [raised |-> FALSE, hit |-> FALSE, cache |-> refresh.cache, resp |-> None,
          list_calls |-> refresh.list_calls, list_fetches |-> refresh.list_fetches,
          page_fetches |-> 0]
    ELSE [raised |-> FALSE, hit |-> FALSE,
          cache |-> CacheSet(refresh.cache, <<"detail", zone, match_id>>,
                             [match |-> Match(match_id, "resolved", match_url[1], UNKNOWN),
                              fetched_at |-> t, timezone |-> zone,
                              raw_text_excerpt |-> excerpt],
                             DETAIL_CACHE_TTL_SECONDS, t),
          resp |-> Some([match |-> Match(match_id, "resolved", match_url[1], UNKNOWN),
                         fetched_at |-> t, timezone |-> zone,
                         raw_text_excerpt |-> excerpt]),
          list_calls |-> refresh.list_calls, list_fetches |-> refresh.list_fetches,
          page_fetches |-> 1]

\* lines 149-175: the cache had no detail for match_id
DetailMiss(refresh, t, match_id, zone, excerpt) ==
    DetailResolved(refresh, UrlOf(refresh.cache, t, zone, match_id),
                   t, match_id, zone, excerpt)

\* lines 140-147: the zone is valid; cached is what the cache has for the key
DetailLookup(cached, c, t, match_id, zone, results, excerpt) ==
    IF cached # None
    THEN [raised |-> FALSE, hit |-> TRUE, cache |-> c, resp |-> cached,
          list_calls |-> 0, list_fetches |-> 0, page_fetches |-> 0]
    ELSE DetailMiss(RefreshList(c, t, zone, results,
                                UrlOf(c, t, zone, match_id) # None),
                    t, match_id, zone, excerpt)

\* get_match_detail(match_id, timezone) at clock t with cache c; the adapters
\* answer `results` if the list is refreshed, the detail page fetch yields
\* `excerpt` (None when it raises) if it is made
DetailOutcome(c, t, match_id, timezone, results, excerpt) ==
    IF _tz(timezone) = None
    THEN [raised |-> TRUE, hit |-> FALSE, cache |-> c, resp |-> None,
          list_calls |-> 0, list_fetches |-> 0, page_fetches |-> 0]
    ELSE DetailLookup(CacheGet(c, <<"detail", _tz(timezone)[1], match_id>>, t),
                      c, t, match_id, _tz(timezone)[1], results, excerpt)

\* live_score_detail: the HTTP status the route answers with
DetailStatus(outcome) ==
    IF outcome.raised THEN 500
    ELSE IF outcome.resp = None THEN 404
    ELSE 200

-----------------------------------------------------------------------------
(* The source adapters' fetch_matches *)

\* RSS_URLS of cricinfo_rss.py and SCORES_URLS of espn_scores.py, by number
RSS_URLS == 2
SCORES_URLS == 3

\* What fetch_text does for one URL is [kind, items]: kind "raise" (network
\* error, non-2xx), "empty" (an empty body) or "page"; items are the blocks
\* of the page with what the text heuristics make of each:
\*   [link, title, description, status, start_date, end_date, bad_date,
\*    score, result]
\* bad_date says that parse_date_range raises on the block (a day that is
\* not in the month).

\* the body the loop `for url in ...: try ... if xml: break` ends with
RECURSIVE FirstBody(_, _)
FirstBody(fetches, i) ==
    IF i > Len(fetches) THEN None
    ELSE IF fetches[i].kind = "page" THEN Some(fetches[i].items)
    ELSE FirstBody(fetches, i + 1)

RssMatch(item) ==
    [Match(make_uid("cricinfo_rss", item.link), "cricinfo_rss", item.link, item.status)
        EXCEPT !.title = item.title, !.description = item.description,
               !.start_date = item.start_date, !.end_date = item.end_date,
               !.score_summary = item.title]

DesktopMatch(item) ==
    [Match(make_uid("cricinfo_desktop", item.link), "cricinfo_desktop", item.link,
           item.status)
        EXCEPT !.description = item.description,
               !.start_date = item.start_date, !.end_date = item.end_date,
               !.score_summary = item.score]

EspnMatch(item) ==
    [Match(make_uid("espn_scores", item.link), "espn_scores", item.link, item.status)
        EXCEPT !.description = item.description,
               !.start_date = item.start_date, !.end_date = item.end_date,
               !.score_summary = item.score, !.result_summary = item.result]

\* the loop over the blocks of a page: [raised, matches]
\* (built[i] is the Match made of items[i])
BuildMatches(items, built) ==
    IF \E i \in 1..Len(items) : items[i].bad_date
    THEN [raised |-> TRUE, matches |-> <<>>]
    ELSE [raised |-> FALSE, matches |-> built]

HasLink(item) == item.link # ""

\* CricinfoRSSSource.fetch_matches
RssFetchMatches(fetches) ==
    LET xml == FirstBody(fetches, 1)
    IN  IF xml = None THEN [raised |-> FALSE, matches |-> <<>>]
        ELSE LET items == SelectSeq(xml[1], HasLink)
             IN  BuildMatches(items, [i \in 1..Len(items) |-> RssMatch(items[i])])

\* CricinfoDesktopSource.fetch_matches
DesktopFetchMatches(fetch) ==
    IF fetch.kind # "page" THEN [raised |-> FALSE, matches |-> <<>>]
    ELSE BuildMatches(fetch.items,
                      [i \in 1..Len(fetch.items) |-> DesktopMatch(fetch.items[i])])

\* uniq = {m.match_id: m for m in matches}; list(uniq.values())
RECURSIVE Uniq(_, _)
Uniq(uniq, matches) ==
    IF matches = <<>> THEN uniq
    ELSE LET m == Head(matches)
             i == KeyIndex(uniq, m.match_id)
         IN  Uniq(IF i # 0 THEN [uniq EXCEPT ![i] = m] ELSE Append(uniq, m),
                  Tail(matches))

\* ESPNScoreboardSource.fetch_matches
EspnFetchMatches(fetches) ==
    LET html == FirstBody(fetches, 1)
    IN  IF html = None THEN [raised |-> FALSE, matches |-> <<>>]
        ELSE LET built == BuildMatches(html[1],
                                       [i \in 1..Len(html[1]) |-> EspnMatch(html[1][i])])
             IN  [raised |-> built.raised, matches |-> Uniq(<<>>, built.matches)]

\* what the three adapters return for the raw fetches [rss, desktop, espn]
AdapterResults(raw) ==
    <<RssFetchMatches(raw.rss), DesktopFetchMatches(raw.desktop),
      EspnFetchMatches(raw.espn)>>

-----------------------------------------------------------------------------
(* Generated Match records: the inputs of the model *)

\* the ways to fill at most MaxFilled optional fields: pairs <<sa, da>> of
\* a function from some str fields to strVals and one from some date fields
\* to dateVals
Fillings(strVals, dateVals) ==
    UNION { [S -> strVals] \X [D -> dateVals] :
              <<S, D>> \in { p \in (SUBSET StrFields) \X (SUBSET DateFields) :
                               Cardinality(p[1]) + Cardinality(p[2]) <= MaxFilled } }

At(f, k) == IF k \in DOMAIN f THEN Some(f[k]) ELSE None

Fill(m, sa, da) ==
    [m EXCEPT !.series = At(sa, "series"), !.title = At(sa, "title"),
              !.description = At(sa, "description"),
              !.score_summary = At(sa, "score_summary"),
              !.result_summary = At(sa, "result_summary"),
              !.note = At(sa, "note"),
              !.start_date = At(da, "start_date"),
              !.end_date = At(da, "end_date")]

\* every Match of the given identity with at most MaxFilled optional fields
GenMatches(src, url, strVals, dateVals) ==
    { Fill(Match(make_uid(src, url), src, url, st), f[1], f[2]) :
        st \in MatchStatus, f \in Fillings(strVals, dateVals) }

\* _merge is only called on two records of one match_id (line 65): the same
\* (source, url) twice, or two that collide under make_uid
MergeOlds == GenMatches("cricinfo_rss", "u2", {"", "a"}, {1})
MergeNews ==
    UNION { GenMatches(p[1], p[2], {"", "b"}, {2}) :
              p \in { q \in {<<"cricinfo_rss", "u2">>} \cup ({"cricinfo_desktop"} \X Urls) :
                        make_uid(q[1], q[2]) = make_uid("cricinfo_rss", "u2") } }
MergePairs ==
    (MergeOlds \X MergeNews) \cup { <<a, a>> : a \in MergeOlds \cup MergeNews }

-----------------------------------------------------------------------------
(* The requests *)

\* whether get_match_list(timezone) gets as far as asking the adapters
ListNeedsFetch(timezone) ==
    LET z == _tz(timezone)
    IN  /\ z # None
        /\ CacheGet(cache, <<"list", z[1], _today(z[1], now)>>, now) = None

\* history of the url-map: the lines of the url-maps that cache c holds and
\* that were written at clock t (lines 84-85) are noted in rec
Noted(rec, c, t) ==
    LET written == { zone \in ZoneNames :
                        /\ <<"urlmap", zone>> \in DOMAIN c
                        /\ c[<<"urlmap", zone>>].expires = t + URLMAP_TTL_SECONDS }
        lines   == { <<zone, id>> \in ZoneNames \X (1..UidSpace) :
                        /\ zone \in written
                        /\ id \in DOMAIN c[<<"urlmap", zone>>].value }
    IN  [k \in DOMAIN rec \cup lines |->
            IF k \in lines
            THEN [url |-> c[<<"urlmap", k[1]>>].value[k[2]], at |-> t]
            ELSE rec[k]]

ListReturns(timezone, results, o) ==
    /\ cache' = o.cache
    /\ recorded' = Noted(recorded, o.cache, now)
    /\ call' = [op |-> "list", timezone |-> timezone, raised |-> o.raised,
                hit |-> o.hit, fetched |-> o.fetched, results |-> results,
                today |-> o.today, all_matches |-> o.all_matches, resp |-> o.resp]
    /\ UNCHANGED <<now, ticks, harness>>

\* GET /live-score?timezone=...: the whole of get_match_list; Results is the
\* set of answers the adapters may give in this request
get_match_list(timezone, Results) ==
    \/ /\ ~ListNeedsFetch(timezone)
       /\ ListReturns(timezone, None, ListOutcome(cache, now, timezone, <<>>))
    \/ /\ ListNeedsFetch(timezone)
       /\ \E results \in Results :
             ListReturns(timezone, Some(results),
                         ListOutcome(cache, now, timezone, results))

\* the adapters are not asked
NotAsked == [i \in 1..Len(Sources) |-> [raised |-> FALSE, matches |-> <<>>]]

\* GET /live-score/{match_id}?timezone=...: the whole of get_match_detail
\* and of the route live_score_detail.  The adapters' answers are drawn when
\* the list is refreshed, the page's excerpt when the page is fetched.
DetailReturns(match_id, timezone, o) ==
    /\ cache' = o.cache
    /\ recorded' = Noted(recorded, o.cache, now)
    /\ call' = [op |-> "detail", match_id |-> match_id,
                timezone |-> timezone, raised |-> o.raised,
                hit |-> o.hit, resp |-> o.resp,
                list_calls |-> o.list_calls,
                list_fetches |-> o.list_fetches,
                page_fetches |-> o.page_fetches,
                status |-> DetailStatus(o)]
    /\ UNCHANGED <<now, ticks, harness>>

\* whether the request refreshes the list with a fetch cycle, and whether,
\* the adapters answering `results`, it fetches the detail page
DetailNeedsList(match_id, timezone) ==
    DetailOutcome(cache, now, match_id, timezone, NotAsked, None).list_fetches = 1
DetailNeedsPage(match_id, timezone, results) ==
    DetailOutcome(cache, now, match_id, timezone, results, None).page_fetches = 1

get_match_detail(match_id, timezone, Results, Excerpts) ==
    \E results \in (IF DetailNeedsList(match_id, timezone) THEN Results ELSE {NotAsked}) :
    \E excerpt \in (IF DetailNeedsPage(match_id, timezone, results)
                    THEN Excerpts ELSE {None}) :
        DetailReturns(match_id, timezone,
                      DetailOutcome(cache, now, match_id, timezone, results, excerpt))

\* time passes between two requests
Tick(d) ==
    /\ ticks < MaxTicks
    /\ now' = now + d
    /\ ticks' = ticks + 1
    /\ UNCHANGED <<cache, call, recorded, harness>>

TickSteps == {1, LIST_CACHE_TTL_SECONDS, URLMAP_TTL_SECONDS, SecondsPerDay}

\* the process starts on day 3, at 12:00 or at 20:00 UTC (in Asia/Kolkata
\* the second is already day 4)
StartTimes == {2 * SecondsPerDay + 12 * 3600, 2 * SecondsPerDay + 20 * 3600}

NoCall == [op |-> "none"]
IdleMerge == mOld = Match(1, "", "", UNKNOWN) /\ mNew = mOld /\ mOut = None
IdleParse == pIn = <<>> /\ pOut = <<>>
IdleVerify ==
    /\ vCand = <<>> /\ vPc = <<>> /\ vPage = <<>>
    /\ vSem = 0 /\ vPeak = 0 /\ vOut = None
IdleRace == racers = <<>> /\ finished = <<>>
IdleHarness == IdleMerge /\ IdleParse /\ IdleVerify /\ IdleRace

InitService ==
    /\ now \in StartTimes
    /\ ticks = 0
    /\ cache = <<>>
    /\ call = NoCall
    /\ recorded = <<>>
    /\ IdleHarness

\* the timezone query parameter: absent, a zone, a name that is no zone
Timezones == {None, Some("UTC"), Some("Mars/Phobos")}

-----------------------------------------------------------------------------
(* The service: requests against upstream sites that may be down *)

\* a block of a page: a link and what the text heuristics made of its text
Block(link, status, dates) ==
    [link |-> link, title |-> Some("A vs B"), description |-> Some("d"),
     status |-> status,
     start_date |-> IF dates = None THEN None ELSE Some(dates[1]),
     end_date |-> IF dates = None THEN None ELSE Some(dates[2]),
     bad_date |-> FALSE, score |-> Some("120/3"), result |-> None]

Raises == [kind |-> "raise", items |-> <<>>]
Empty == [kind |-> "empty", items |-> <<>>]
Page(items) == [kind |-> "page", items |-> items]
Garbled(block) == [block EXCEPT !.bad_date = TRUE]

\* the day the process starts on, in UTC
StartDay == _today("UTC", CHOOSE t \in StartTimes : TRUE)

\* what the upstream sites may answer in one fetch cycle: each site down,
\* up, or up with a block whose date does not parse
RssAnswers ==
    { [i \in 1..RSS_URLS |-> Raises],
      [i \in 1..RSS_URLS |-> IF i = 1 THEN Empty
                             ELSE Page(<<Block("u2", LIVE, <<StartDay, StartDay>>)>>)] }
DesktopAnswers ==
    { Raises,
      Page(<<Block("u1", UNKNOWN, None), Block("u3", RESULT, <<StartDay - 1, StartDay - 1>>)>>),
      Page(<<Garbled(Block("u1", UNKNOWN, None))>>) }
EspnAnswers ==
    { [i \in 1..SCORES_URLS |-> Raises],
      [i \in 1..SCORES_URLS |-> IF i < SCORES_URLS THEN Raises
                                ELSE Page(<<Block("u4", UPCOMING, <<StartDay + 1, StartDay + 1>>),
                                            Block("u4", UPCOMING, None)>>)] }

ServiceResults ==
    { AdapterResults([rss |-> r, desktop |-> d, espn |-> e]) :
        r \in RssAnswers, d \in DesktopAnswers, e \in EspnAnswers }

\* the match ids asked for: two that adapters produce, one that none does
DetailIds == {make_uid("cricinfo_rss", "u2"), make_uid("espn_scores", "u4"),
              UidSpace + 1}

\* fetch_match_detail_excerpt: raises (None) or yields the top of the page
Excerpts == {None, Some("A vs B 120/3")}

Next ==
    \/ \E timezone \in Timezones : get_match_list(timezone, ServiceResults)
    \/ \E match_id \in DetailIds, timezone \in Timezones :
          get_match_detail(match_id, timezone, ServiceResults, Excerpts)

Spec == InitService /\ [][Next]_vars

\* the match_id of a sequence of matches, as a set
Ids(matches) == { matches[i].match_id : i \in 1..Len(matches) }

UnknownId == UidSpace + 1
UsableTimezone(timezone) == _tz(timezone) # None

\* C9: get_match_detail for a match id no adapter produces (the timezone
\* being usable) returns the absent result, which the route reports as 404
\* and not as an error, after exactly one call of get_match_list, hence at
\* most one fetch cycle, and no detail page fetch; and the detail cache never
\* holds an entry for that id.
C9_DetailNotFound ==
    /\ (call.op = "detail" /\ call.match_id = UnknownId
           /\ UsableTimezone(call.timezone)) =>
          /\ ~call.raised
          /\ call.resp = None
          /\ call.status = 404
          /\ call.list_calls = 1
          /\ call.list_fetches <= 1
          /\ call.page_fetches = 0
    /\ \A k \in DOMAIN cache : ~(k[1] = "detail" /\ k[3] = UnknownId)

\* an unknown id was asked for and the one refresh ran a fetch cycle that
\* brought matches, none of them the one asked for
C9_Witness ==
    /\ call.op = "detail"
    /\ call.match_id = UnknownId
    /\ call.status = 404
    /\ call.list_calls = 1
    /\ call.list_fetches = 1
    /\ \E k \in DOMAIN cache : k[1] = "urlmap" /\ DOMAIN cache[k].value # {}

\* C10: a list build absorbs the failure of any subset of adapters: the
\* request does not raise, the reconciled matches are exactly those of the
\* adapters that did not fail, and when every adapter fails or brings
\* nothing the result is the empty list in mode "mixed".
C10_FailuresAbsorbed ==
    (call.op = "list" /\ UsableTimezone(call.timezone)) =>
        /\ ~call.raised
        /\ call.resp # None
        /\ call.fetched =>
              LET results == call.results[1]
                  alive == { i \in 1..Len(Sources) : ~results[i].raised }
              IN  /\ Ids(call.all_matches) = UNION { Ids(results[i].matches) : i \in alive }
                  /\ (\A i \in alive : results[i].matches = <<>>) =>
                        /\ call.resp[1].items = <<>>
                        /\ call.resp[1].mode = "mixed"

\* one adapter raised and another's matches are in the result
C10_Witness ==
    /\ call.op = "list"
    /\ call.fetched
    /\ \E i, j \in 1..Len(Sources) :
          /\ call.results[1][i].raised
          /\ ~call.results[1][j].raised
          /\ call.results[1][j].matches # <<>>
          /\ Ids(call.results[1][j].matches) \subseteq Ids(call.all_matches)
    /\ call.resp[1].items # <<>>

-----------------------------------------------------------------------------
(* One fetch cycle over adapters that return records of one match *)

\* the optional field the records of a cycle differ in, and the values
\* adapter i gives it: none, an empty string, a value of its own
OptionalFields == StrFields \cup DateFields
OwnText == <<"from rss", "from desktop", "from espn">>
FocusValues(i, field) ==
    IF field \in StrFields THEN {None, Some(""), Some(OwnText[i])}
    ELSE {None, Some(i)}

WithField(m, field, v) ==
    CASE field = "series" -> [m EXCEPT !.series = v]
      [] field = "title" -> [m EXCEPT !.title = v]
      [] field = "description" -> [m EXCEPT !.description = v]
      [] field = "start_date" -> [m EXCEPT !.start_date = v]
      [] field = "end_date" -> [m EXCEPT !.end_date = v]
      [] field = "score_summary" -> [m EXCEPT !.score_summary = v]
      [] field = "result_summary" -> [m EXCEPT !.result_summary = v]
      [] field = "note" -> [m EXCEPT !.note = v]

\* the URLs the adapters report: rss u3, desktop u2 and espn u1 collide
\* under make_uid, desktop u5 is a match of its own
FocusUrls == <<{"u3"}, {"u2", "u5"}, {"u1"}>>

\* what adapter i may return in a cycle about `field`: it raises, it returns
\* nothing, or it returns one Match
FocusAnswers(i, field) ==
    { [raised |-> TRUE, matches |-> <<>>], [raised |-> FALSE, matches |-> <<>>] }
    \cup { [raised |-> FALSE,
            matches |-> <<WithField(Match(make_uid(Sources[i], url), Sources[i], url, st),
                                    field, v)>>] :
             url \in FocusUrls[i], st \in MatchStatus, v \in FocusValues(i, field) }

\* the end-to-end scenario of the specification
ScenarioResults ==
    LET id == make_uid("cricinfo_rss", "u3")
    IN  << [raised |-> FALSE,
            matches |-> <<[Match(id, "cricinfo_rss", "u3", UNKNOWN)
                              EXCEPT !.title = Some("A vs B")]>>],
           [raised |-> FALSE,
            matches |-> <<[Match(id, "cricinfo_desktop", "u2", LIVE)
                              EXCEPT !.score_summary = Some("120/3")]>>],
           [raised |-> FALSE,
            matches |-> <<[Match(id, "espn_scores", "u1", UNKNOWN)
                              EXCEPT !.series = Some("Test Series")]>>] >>

FetchResults ==
    { <<r, d, e>> : <<r, d, e>> \in
        UNION { FocusAnswers(1, f) \X FocusAnswers(2, f) \X FocusAnswers(3, f) :
                  f \in OptionalFields } }
    \cup {ScenarioResults}

NextFetch == get_match_list(None, FetchResults)

SpecFetch == InitService /\ [][NextFetch]_vars

\* the records the adapters returned in a cycle, in fetch order
RECURSIVE Fetched(_, _)
Fetched(results, i) ==
    IF i > Len(results) THEN <<>>
    ELSE (IF results[i].raised THEN <<>> ELSE results[i].matches)
         \o Fetched(results, i + 1)

IsEmptyValue(v) == v = None \/ v = Some("")
IsEmptyDate(v) == v = None

\* v is the first value of the sequence that is not empty, or is empty when
\* all are
FirstNonEmpty(v, values, IsEmpty(_)) ==
    IF \E i \in 1..Len(values) : ~IsEmpty(values[i])
    THEN LET i == CHOOSE i \in 1..Len(values) :
                     /\ ~IsEmpty(values[i])
                     /\ \A j \in 1..(i - 1) : IsEmpty(values[j])
         IN  v = values[i]
    ELSE IsEmpty(v)

FirstKnown(st, statuses) ==
    IF \E i \in 1..Len(statuses) : Known(statuses[i])
    THEN LET i == CHOOSE i \in 1..Len(statuses) :
                     /\ Known(statuses[i])
                     /\ \A j \in 1..(i - 1) : ~Known(statuses[j])
         IN  st = statuses[i]
    ELSE st = UNKNOWN

\* C2: the record _fetch_all_sources makes of the records of one match_id
\* has, in each optional field, the first non-empty value in adapter fetch
\* order, and as status the first known one.
C2_FirstNonEmptyWins ==
    (call.op = "list" /\ call.fetched) =>
        LET fetched == Fetched(call.results[1], 1)
        IN  \A n \in 1..Len(call.all_matches) :
            LET m == call.all_matches[n]
                Same(x) == x.match_id = m.match_id
                group == SelectSeq(fetched, Same)
                Col(field) == [i \in 1..Len(group) |-> group[i][field]]
            IN  /\ Len(group) >= 1
                /\ \A field \in StrFields :
                      FirstNonEmpty(m[field], Col(field), IsEmptyValue)
                /\ \A field \in DateFields :
                      FirstNonEmpty(m[field], Col(field), IsEmptyDate)
                /\ FirstKnown(m.status, Col("status"))

\* the end-to-end scenario has been fetched and merged as the specification
\* says
C2_Witness ==
    /\ call.op = "list"
    /\ call.fetched
    /\ call.results = Some(ScenarioResults)
    /\ Len(call.all_matches) = 1
    /\ call.all_matches[1].status = LIVE
    /\ call.all_matches[1].title = Some("A vs B")
    /\ call.all_matches[1].score_summary = Some("120/3")
    /\ call.all_matches[1].series = Some("Test Series")

-----------------------------------------------------------------------------
(* One list build over a feed of matches dated around today *)

\* the date ranges parse_date_range may find in a block, around day t: none,
\* today, around today, in the past, in the future
DatesAround(t) ==
    {None, <<t, t>>, <<t - 1, t + 1>>, <<t - 2, t - 1>>, <<t + 1, t + 2>>}

\* an item of the RSS feed: [status, dates] at position i of the feed
FeedItem(i, kind) ==
    [link |-> UrlSeq[i], title |-> None, description |-> None,
     status |-> kind[1],
     start_date |-> IF kind[2] = None THEN None ELSE Some(kind[2][1]),
     end_date |-> IF kind[2] = None THEN None ELSE Some(kind[2][2]),
     bad_date |-> FALSE, score |-> None, result |-> None]

AnyKinds(t) == MatchStatus \X DatesAround(t)
DatedKinds(t) ==
    {<<RESULT, <<t - 2, t - 2>>>>, <<RESULT, <<t - 2, t - 1>>>>,
     <<UPCOMING, <<t + 1, t + 1>>>>, <<UPCOMING, <<t + 2, t + 2>>>>}

\* feeds of up to MaxItems items of any kind, and feeds of more than
\* RECENT_LIMIT and up to MaxLong past results and future fixtures
Feeds(t) ==
    UNION { [1..n -> AnyKinds(t)] : n \in 0..MaxItems }
    \cup UNION { [1..n -> DatedKinds(t)] : n \in (RECENT_LIMIT + 1)..MaxLong }

\* the RSS feed answers at its first URL, the other two sites are down
FeedResults(t) ==
    { AdapterResults(
        [rss |-> [i \in 1..RSS_URLS |-> Page([j \in 1..Len(feed) |-> FeedItem(j, feed[j])])],
         desktop |-> Raises,
         espn |-> [i \in 1..SCORES_URLS |-> Raises]]) : feed \in Feeds(t) }

NextList == get_match_list(None, FeedResults(_today(SettingsTZ, now)))

SpecList == InitService /\ [][NextList]_vars

\* "qualifies as today": start_date <= today <= end_date, or start_date =
\* today when there is no end_date, or no date information
QualifiesToday(m, today) ==
    CASE m.start_date # None /\ m.end_date # None ->
             m.start_date[1] <= today /\ today <= m.end_date[1]
      [] m.start_date # None /\ m.end_date = None -> m.start_date[1] = today
      [] OTHER -> TRUE

\* the matches of status st that qualify as today, in the order of matches
TodayOf(matches, today, st) ==
    LET Test(m) == m.status = st /\ QualifiesToday(m, today)
    IN  SelectSeq(matches, Test)

AnyToday(matches, today) ==
    \E i \in 1..Len(matches) : QualifiesToday(matches[i], today)

Built == call.op = "list" /\ call.fetched

\* C4: on a cache miss the mode is "live" exactly when a LIVE match
\* qualifies as today, "upcoming" exactly when none does but an UPCOMING
\* match qualifies as today, and "mixed" in every other case.
C4_Mode ==
    Built =>
        LET mode == call.resp[1].mode
            live == TodayOf(call.all_matches, call.today, LIVE) # <<>>
            upcoming == TodayOf(call.all_matches, call.today, UPCOMING) # <<>>
        IN  /\ mode \in {"live", "upcoming", "mixed"}
            /\ mode = "live" <=> live
            /\ mode = "upcoming" <=> (~live /\ upcoming)
            /\ mode = "mixed" <=> (~live /\ ~upcoming)

\* a LIVE match in the middle of a match of several days wins over an
\* UPCOMING match of today
C4_Witness ==
    /\ Built
    /\ call.resp[1].mode = "live"
    /\ TodayOf(call.all_matches, call.today, UPCOMING) # <<>>
    /\ \E i \in 1..Len(call.all_matches) :
          /\ call.all_matches[i].status = LIVE
          /\ call.all_matches[i].start_date = Some(call.today - 1)
          /\ call.all_matches[i].end_date = Some(call.today + 1)

\* C5: when a match qualifies as today, items is live ++ upcoming ++ results
\* of today in mode "live" (so a LIVE match comes first), upcoming ++ results
\* in mode "upcoming", and the results of today in the fallback mode "mixed".
C5_ItemsOrder ==
    (Built /\ AnyToday(call.all_matches, call.today)) =>
        LET resp == call.resp[1]
            live == TodayOf(call.all_matches, call.today, LIVE)
            upcoming == TodayOf(call.all_matches, call.today, UPCOMING)
            results == TodayOf(call.all_matches, call.today, RESULT)
        IN  /\ resp.mode = "live" =>
                  /\ resp.items = live \o upcoming \o results
                  /\ resp.items[1].status = LIVE
            /\ resp.mode = "upcoming" => resp.items = upcoming \o results
            /\ resp.mode = "mixed" => resp.items = results

\* the feed lists a result, an upcoming and a live match of today, in that
\* order, and items has them live first
C5_Witness ==
    /\ Built
    /\ Len(call.all_matches) = 3
    /\ call.all_matches[1].status = RESULT
    /\ call.all_matches[2].status = UPCOMING
    /\ call.all_matches[3].status = LIVE
    /\ call.resp[1].mode = "live"
    /\ Len(call.resp[1].items) = 3
    /\ call.resp[1].items[1] = call.all_matches[3]
    /\ call.resp[1].items[2] = call.all_matches[2]

\* end_date, or start_date when end_date is missing
EndOrStart(m) == IF m.end_date # None THEN m.end_date[1] ELSE m.start_date[1]

\* C6: when no match qualifies as today the mode is "mixed" and items is at
\* most 5 recent matches in descending order of end date (start date when
\* there is no end date) followed by at most 5 future matches in ascending
\* order of start date: at most 10 items.
C6_MixedNoToday ==
    (Built /\ ~AnyToday(call.all_matches, call.today)) =>
        LET resp == call.resp[1]
            recent == resp.recent
            future == resp.upcoming
        IN  /\ resp.mode = "mixed"
            /\ resp.items = recent \o future
            /\ Len(recent) <= 5
            /\ Len(future) <= 5
            /\ Len(resp.items) <= 10
            /\ Ids(recent) \cup Ids(future) \subseteq Ids(call.all_matches)
            /\ \A i \in 1..Len(recent), j \in 1..Len(recent) :
                  i < j => EndOrStart(recent[i]) >= EndOrStart(recent[j])
            /\ \A i \in 1..Len(future), j \in 1..Len(future) :
                  i < j => future[i].start_date[1] <= future[j].start_date[1]

\* seven matches, none of today: six past results of two different end
\* dates, of which five are kept, and one fixture
C6_Witness ==
    /\ Built
    /\ ~AnyToday(call.all_matches, call.today)
    /\ Len(call.all_matches) = 7
    /\ Cardinality({ i \in 1..7 : call.all_matches[i].status = RESULT }) = 6
    /\ Len(call.resp[1].recent) = 5
    /\ Len(call.resp[1].items) = 6
    /\ EndOrStart(call.resp[1].recent[1]) > EndOrStart(call.resp[1].recent[5])

\* C7: in mode "mixed" with no match of today, every recent item is a past
\* result (status RESULT, dated before today) and every future item a future
\* fixture (status UPCOMING, start date after today).
C7_OnlyResultsAndFixtures ==
    (Built /\ ~AnyToday(call.all_matches, call.today)) =>
        LET recent == call.resp[1].recent
            future == call.resp[1].upcoming
        IN  /\ \A i \in 1..Len(recent) :
                  /\ recent[i].status = RESULT
                  /\ EndOrStart(recent[i]) < call.today
            /\ \A i \in 1..Len(future) :
                  /\ future[i].status = UPCOMING
                  /\ future[i].start_date[1] > call.today

\* C8: a reconciled match without start_date qualifies as today and is in
\* items, whatever its status.
C8_UndatedShown ==
    Built =>
        \A i \in 1..Len(call.all_matches) :
            call.all_matches[i].start_date = None =>
                /\ _is_today_match(call.all_matches[i], call.today)
                /\ call.all_matches[i].match_id \in Ids(call.resp[1].items)

\* C18: in every list that get_match_list builds, every match of items is in
\* one of the returned buckets live, upcoming or recent.
C18_BucketsAccountForItems ==
    Built =>
        LET resp == call.resp[1]
        IN  Ids(resp.items) \subseteq
                Ids(resp.live) \cup Ids(resp.upcoming) \cup Ids(resp.recent)

\* C19: in every list that get_match_list builds, in every mode, no match_id
\* occurs more than once in items.
C19_NoDuplicateItems ==
    Built =>
        LET items == call.resp[1].items
        IN  \A i \in 1..Len(items), j \in 1..Len(items) :
                i # j => items[i].match_id # items[j].match_id

-----------------------------------------------------------------------------
(* The _merge harness: one call of _merge on a generated pair *)

InitIdle ==
    /\ now = 0
    /\ ticks = 0
    /\ cache = <<>>
    /\ call = NoCall
    /\ recorded = <<>>

InitMerge ==
    /\ InitIdle
    /\ IdleParse /\ IdleVerify /\ IdleRace
    /\ \E p \in MergePairs : mOld = p[1] /\ mNew = p[2]
    /\ mOut = None

CallMerge ==
    /\ mOut = None
    /\ mOut' = Some(_merge(mOld, mNew))
    /\ UNCHANGED <<serviceVars, mOld, mNew, parseVars, verifyVars, raceVars>>

SpecMerge == InitMerge /\ [][CallMerge]_vars

\* C1: the status of _merge(old, new) is old's when old's is known, whatever
\* new's is, and new's when old's is UNKNOWN and new's is known: a known
\* status is never replaced, neither by UNKNOWN nor by another known status.
C1_MergeStatus ==
    mOut # None =>
        /\ Known(mOld.status) => mOut[1].status = mOld.status
        /\ (mOld.status = UNKNOWN /\ Known(mNew.status)) =>
               mOut[1].status = mNew.status
        /\ Known(mOld.status) \/ Known(mNew.status) => Known(mOut[1].status)

\* a known status met an UNKNOWN one, and two known statuses differed
C1_Witness ==
    /\ mOut # None
    /\ mOld.status = RESULT
    /\ mNew.status = LIVE
    /\ mOut[1].status = RESULT

\* C3: _merge(a, a) equals a in every field.
C3_MergeIdempotent ==
    (mOut # None /\ mOld = mNew) => mOut[1] = mOld

\* a record with an empty-string field and a known status merged with itself
C3_Witness ==
    /\ mOut # None
    /\ mOld = mNew
    /\ mOld.title = Some("")
    /\ mOld.status = LIVE
    /\ mOut[1] = mOld

-----------------------------------------------------------------------------
(* The service under a clock that advances between requests *)

\* what the upstream sites answer while the clock runs: the feed and the
\* desktop page are each up or down, the scoreboard is down
ClockResults ==
    { AdapterResults([rss |-> r, desktop |-> d,
                      espn |-> [i \in 1..SCORES_URLS |-> Raises]]) :
        r \in RssAnswers,
        d \in { Raises,
                Page(<<Block("u3", RESULT, <<StartDay - 1, StartDay - 1>>)>>) } }

\* the match ids asked for: the match of the feed, the match of the page
ClockIds == {make_uid("cricinfo_rss", "u2"), make_uid("cricinfo_desktop", "u3")}

ClockExcerpts == {Some("A vs B 120/3")}

NextClock ==
    \/ get_match_list(None, ClockResults)
    \/ \E match_id \in ClockIds :
          get_match_detail(match_id, None, ClockResults, ClockExcerpts)
    \/ \E d \in TickSteps : Tick(d)

SpecClock == InitService /\ [][NextClock]_vars

\* the key of the list entry a request with this timezone reads at clock t
ListKey(timezone, t) ==
    <<"list", _tz(timezone)[1], _today(_tz(timezone)[1], t)>>

\* C11: a get_match_list call made less than the list TTL after the cached
\* result of its key (timezone, today) was built returns that result, asks no
\* adapter and writes nothing to the cache; a call made with no such result,
\* or once the TTL has elapsed since it was built, runs a fetch cycle and
\* replaces the entry, and a get right after that set returns what was set.
C11_ListCacheTtl ==
    [][ (call'.op = "list" /\ now' = now /\ UsableTimezone(call'.timezone)) =>
          LET key   == ListKey(call'.timezone, now)
              fresh == /\ key \in DOMAIN cache
                       /\ now - cache[key].value.generated_at < LIST_CACHE_TTL_SECONDS
          IN  IF fresh
              THEN /\ call'.hit
                   /\ ~call'.fetched
                   /\ call'.resp = Some(cache[key].value)
                   /\ cache' = cache
              ELSE /\ ~call'.hit
                   /\ call'.fetched
                   /\ call'.resp[1].generated_at = now
                   /\ key \in DOMAIN cache'
                   /\ cache'[key].value = call'.resp[1]
                   /\ CacheGet(cache', key, now) = call'.resp ]_vars

\* a list request was answered from the cache after the clock had advanced,
\* and the url-map shows that a build had happened before
C11_Witness ==
    /\ call.op = "list"
    /\ call.hit
    /\ ticks >= 1
    /\ call.resp[1].generated_at < now
    /\ call.resp[1].items # <<>>

\* the url recorded for the match asked for, if a list build recorded one
\* for this zone less than the url-map TTL ago
RecordedUrl(zone, match_id, t) ==
    IF /\ <<zone, match_id>> \in DOMAIN recorded
       /\ t - recorded[<<zone, match_id>>].at < URLMAP_TTL_SECONDS
    THEN Some(recorded[<<zone, match_id>>].url)
    ELSE None

\* C12: a get_match_detail request for a match_id that a list build of the
\* same timezone recorded in the url-map less than an hour ago resolves to
\* the recorded URL, whether or not the current list still has the match.
C12_UrlMapResolves ==
    (call.op = "detail" /\ UsableTimezone(call.timezone)) =>
        LET url == RecordedUrl(_tz(call.timezone)[1], call.match_id, now)
        IN  url # None =>
               /\ call.resp # None
               /\ call.resp[1].match.url = url[1]

-----------------------------------------------------------------------------
(* Invalid timezone names *)

\* the timezone parameter names no zone (it is given, not empty, and ZoneInfo
\* knows no zone of that name)
InvalidTimezone(timezone) ==
    /\ timezone # None
    /\ timezone # Some("")
    /\ timezone[1] \notin ZoneNames

\* C13: a request with an invalid timezone name raises, and raises before
\* any cache lookup, cache write or adapter fetch: the cache is left as it
\* was, nothing is answered from it and no list or page is fetched.
C13_InvalidTimezoneRaises ==
    [][ (call'.op # "none" /\ InvalidTimezone(call'.timezone)) =>
          /\ call'.raised
          /\ ~call'.hit
          /\ call'.resp = None
          /\ cache' = cache
          /\ call'.op = "list" => ~call'.fetched
          /\ call'.op = "detail" =>
                /\ call'.list_calls = 0
                /\ call'.list_fetches = 0
                /\ call'.page_fetches = 0
                /\ call'.status = 500 ]_vars

\* a detail request with an invalid timezone raised while the cache held a
\* list and a url-map with the match asked for
C13_Witness ==
    /\ call.op = "detail"
    /\ InvalidTimezone(call.timezone)
    /\ call.raised
    /\ \E k \in DOMAIN cache : k[1] = "urlmap" /\ call.match_id \in DOMAIN cache[k].value

-----------------------------------------------------------------------------
(* parsing.py: classify_status.  A text is a sequence of characters. *)

Upper == <<"A", "D", "I", "L", "M", "R", "S", "T", "W">>
Lowered == <<"a", "d", "i", "l", "m", "r", "s", "t", "w">>

\* str.lower(), character by character
LowerChar(c) ==
    IF \E i \in 1..Len(Upper) : Upper[i] = c
    THEN Lowered[CHOOSE i \in 1..Len(Upper) : Upper[i] = c]
    ELSE c
Lower(text) == [i \in 1..Len(text) |-> LowerChar(text[i])]

\* `pat in t`
Contains(t, pat) ==
    \E i \in 1..(Len(t) - Len(pat) + 1) : SubSeq(t, i, i + Len(pat) - 1) = pat

\* the character classes \d, \w and \s of the regular expressions
IsDigit(c) == c \in {"0", "1", "2", "3", "4", "5", "6", "7", "8", "9"}
IsWordChar(c) ==
    \/ IsDigit(c)
    \/ c \in {"a", "b", "c", "d", "e", "f", "g", "h", "i", "j", "k", "l", "m",
              "n", "o", "p", "q", "r", "s", "t", "u", "v", "w", "x", "y", "z", "_"}
WordAt(t, i) == i >= 1 /\ i <= Len(t) /\ IsWordChar(t[i])

\* \b between the positions i - 1 and i
Boundary(t, i) == WordAt(t, i - 1) # WordAt(t, i)

\* \d+ from position i: the positions it may end at
DigitEnds(t, i) ==
    { j \in i..Len(t) : \A k \in i..j : IsDigit(t[k]) }

\* \s* and \s+ from position i: the positions the match may go on at
AfterSpaces(t, i) ==
    { j \in i..(Len(t) + 1) : \A k \in i..(j - 1) : t[k] = " " }
AfterSomeSpaces(t, i) == AfterSpaces(t, i) \ {i}

\* the literal lit at position i
LiteralAt(t, i, lit) ==
    /\ i >= 1
    /\ i + Len(lit) - 1 <= Len(t)
    /\ SubSeq(t, i, i + Len(lit) - 1) = lit

\* \bword\b somewhere in t
WholeWord(t, word) ==
    \E i \in 1..Len(t) :
        /\ LiteralAt(t, i, word)
        /\ Boundary(t, i)
        /\ Boundary(t, i + Len(word))

\* r"\b\d+/\d+\b"
ScoreSlash(t) ==
    \E i \in 1..Len(t) :
        /\ Boundary(t, i)
        /\ \E j \in DigitEnds(t, i) :
              /\ LiteralAt(t, j + 1, <<"/">>)
              /\ \E l \in DigitEnds(t, j + 2) : Boundary(t, l + 1)

\* r"\b\d+\s*&\s*\d+\b"
ScoreAmpersand(t) ==
    \E i \in 1..Len(t) :
        /\ Boundary(t, i)
        /\ \E j \in DigitEnds(t, i) :
            \E a \in AfterSpaces(t, j + 1) :
              /\ LiteralAt(t, a, <<"&">>)
              /\ \E b \in AfterSpaces(t, a + 1) :
                  \E l \in DigitEnds(t, b) : Boundary(t, l + 1)

\* r"\(\d+(\.\d+)?/\d+\s*ov"
ScoreOvers(t) ==
    \E i \in 1..Len(t) :
        /\ t[i] = "("
        /\ \E j \in DigitEnds(t, i + 1) :
            \E k \in {j} \cup (IF LiteralAt(t, j + 1, <<".">>)
                                THEN DigitEnds(t, j + 2) ELSE {}) :
              /\ LiteralAt(t, k + 1, <<"/">>)
              /\ \E l \in DigitEnds(t, k + 2) :
                  \E o \in AfterSpaces(t, l + 1) : LiteralAt(t, o, <<"o", "v">>)

\* r"\bday\s+\d+\b"
ScoreDay(t) ==
    \E i \in 1..Len(t) :
        /\ Boundary(t, i)
        /\ LiteralAt(t, i, <<"d", "a", "y">>)
        /\ \E j \in AfterSomeSpaces(t, i + 3) :
            \E l \in DigitEnds(t, j) : Boundary(t, l + 1)

\* score_patterns, searched with re.IGNORECASE: on the case-folded text
ScoreLike(t) ==
    \/ ScoreSlash(t)
    \/ ScoreAmpersand(t)
    \/ ScoreOvers(t)
    \/ ScoreDay(t)
    \/ WholeWord(t, <<"i", "n", "n", "i", "n", "g", "s">>)
    \/ WholeWord(t, <<"t", "e", "a">>)
    \/ WholeWord(t, <<"l", "u", "n", "c", "h">>)

\* line 64: the cues of a result
ResultCues ==
    { <<"w", "o", "n", " ", "b", "y">>,
      <<"m", "a", "t", "c", "h", " ", "d", "r", "a", "w", "n">>,
      <<"a", "b", "a", "n", "d", "o", "n", "e", "d">>,
      <<"n", "o", " ", "r", "e", "s", "u", "l", "t">>,
      <<"t", "i", "e", "d">>,
      <<"s", "t", "u", "m", "p", "s", " ", "-">>,
      <<"r", "e", "s", "u", "l", "t">> }

STARTS_AT == <<"s", "t", "a", "r", "t", "s", " ", "a", "t">>
START == <<"s", "t", "a", "r", "t">>
LOCAL_TIME == <<"l", "o", "c", "a", "l", " ", "t", "i", "m", "e">>

\* mutant: the score patterns are tried before the cues of a result
classify_status_ScoreFirst(block_text) ==
    LET t == Lower(block_text)
    IN  IF ScoreLike(t) /\ ~Contains(t, STARTS_AT) THEN LIVE
        ELSE IF \E x \in ResultCues : Contains(t, x) THEN RESULT
        ELSE IF Contains(t, STARTS_AT) \/ (Contains(t, START) /\ Contains(t, LOCAL_TIME))
        THEN UPCOMING
        ELSE UNKNOWN

classify_status(block_text) ==
    LET t == Lower(block_text)
    IN  IF \E x \in ResultCues : Contains(t, x) THEN RESULT
        ELSE IF Contains(t, STARTS_AT) \/ (Contains(t, START) /\ Contains(t, LOCAL_TIME))
        THEN UPCOMING
        ELSE IF ScoreLike(t) /\ ~Contains(t, STARTS_AT) THEN LIVE
        ELSE UNKNOWN

\* The phrases block texts are made of, each with the cues it carries:
\* "result" (a cue of line 64), "startsAt", "start", "localTime", "score" (a
\* match of one of the score patterns).  "untied" carries a result cue and
\* "restart" the cue start, as `in` looks for substrings; "steam", "a26/1b"
\* and "Monday 2" carry none, as the score patterns look for whole words.
Phrases ==
    { 
      [text |-> <<"W", "o", "n", " ", "b", "y", " ", "5">>,
       cues |-> {"result"}],
      [text |-> <<"m", "a", "t", "c", "h", " ", "d", "r", "a", "w", "n">>,
       cues |-> {"result"}],
      [text |-> <<"R", "e", "s", "u", "l", "t">>,
       cues |-> {"result"}],
      [text |-> <<"u", "n", "t", "i", "e", "d">>,
       cues |-> {"result"}],
      [text |-> <<"A", "b", "a", "n", "d", "o", "n", "e", "d">>,
       cues |-> {"result"}],
      [text |-> <<"n", "o", " ", "r", "e", "s", "u", "l", "t">>,
       cues |-> {"result"}],
      [text |-> <<"S", "t", "u", "m", "p", "s", " ", "-", " ", "D", "a", "y", " ", "2">>,
       cues |-> {"result", "score"}],
      [text |-> <<"S", "t", "a", "r", "t", "s", " ", "a", "t", " ", "1", "0">>,
       cues |-> {"startsAt", "start"}],
      [text |-> <<"r", "e", "s", "t", "a", "r", "t">>,
       cues |-> {"start"}],
      [text |-> <<"L", "o", "c", "a", "l", " ", "T", "i", "m", "e">>,
       cues |-> {"localTime"}],
      [text |-> <<"2", "6", "/", "1">>,
       cues |-> {"score"}],
      [text |-> <<"1", "5", "2", " ", "&", " ", "1", "3", "2">>,
       cues |-> {"score"}],
      [text |-> <<"(", "3", ".", "1", "/", "2", "0", " ", "o", "v", ")">>,
       cues |-> {"score"}],
      [text |-> <<"I", "n", "n", "i", "n", "g", "s">>,
       cues |-> {"score"}],
      [text |-> <<"T", "e", "a">>,
       cues |-> {"score"}],
      [text |-> <<"l", "u", "n", "c", "h">>,
       cues |-> {"score"}],
      [text |-> <<"s", "t", "e", "a", "m">>,
       cues |-> {}],
      [text |-> <<"a", "2", "6", "/", "1", "b">>,
       cues |-> {}],
      [text |-> <<"M", "o", "n", "d", "a", "y", " ", "2">>,
       cues |-> {}],
      [text |-> <<"x">>,
       cues |-> {}] }

\* the phrases of a text, joined by single spaces
RECURSIVE Joined(_)
Joined(words) ==
    IF Len(words) = 1 THEN words[1].text
    ELSE words[1].text \o <<" ">> \o Joined(Tail(words))

BlockTexts ==
    UNION { [1..n -> Phrases] : n \in 1..MaxWords }

InitClassify ==
    /\ InitIdle
    /\ IdleMerge /\ IdleVerify /\ IdleRace
    /\ pIn \in BlockTexts
    /\ pOut = <<>>

\* classify_status(block_text), called once more on the same text
CallClassify ==
    /\ Len(pOut) < 2
    /\ pOut' = Append(pOut, classify_status(Joined(pIn)))
    /\ UNCHANGED <<serviceVars, mergeVars, pIn, verifyVars, raceVars>>

SpecClassify == InitClassify /\ [][CallClassify]_vars

\* the cues the phrases of a text carry
CuesOf(words) == UNION { words[i].cues : i \in 1..Len(words) }

\* C14: a text with a result cue is RESULT whatever else it has; otherwise a
\* text with "starts at", or with "start" and "local time", is UPCOMING;
\* otherwise a text with a score-like cue is LIVE, so that LIVE is returned
\* only with a score-like cue, no result cue and no "starts at"; every other
\* text is UNKNOWN; and two calls on one text return the same status.
C14_ClassifyPriority ==
    \A n \in 1..Len(pOut) :
        LET cues == CuesOf(pIn)
            isResult   == "result" \in cues
            isUpcoming == "startsAt" \in cues \/ {"start", "localTime"} \subseteq cues
            isScore    == "score" \in cues
        IN  /\ isResult => pOut[n] = RESULT
            /\ (~isResult /\ isUpcoming) => pOut[n] = UPCOMING
            /\ (~isResult /\ ~isUpcoming /\ isScore) => pOut[n] = LIVE
            /\ (~isResult /\ ~isUpcoming /\ ~isScore) => pOut[n] = UNKNOWN
            /\ pOut[n] = LIVE => (isScore /\ ~isResult /\ "startsAt" \notin cues)
            /\ pOut[n] = pOut[1]

\* a text with a result cue, a fixture cue and a score, classified twice
C14_Witness ==
    /\ Len(pOut) = 2
    /\ {"result", "startsAt", "score"} \subseteq CuesOf(pIn)
    /\ pOut[2] = RESULT

-----------------------------------------------------------------------------
(* parsing.py: parse_date_range.  A text is taken by the tokens the two     *)
(* regular expressions look for: [form, month, d1, d2, y], where form is    *)
(* "short" for `Mon D[-D2][,] YYYY`, "long" for `Month D, YYYY` and "none"  *)
(* for a text neither expression matches; month is the capitalised word,    *)
(* d1, d2 and y are the numbers of the digit groups (d2 None when the text  *)
(* has no range).                                                           *)

\* MONTHS
MONTHS == <<"Jan", "Feb", "Mar", "Apr", "May", "Jun",
            "Jul", "Aug", "Sep", "Oct", "Nov", "Dec">>

\* MONTHS.get(mon_s): 0 stands for None
MonthNumber(mon_s) ==
    IF \E i \in 1..Len(MONTHS) : MONTHS[i] = mon_s
    THEN CHOOSE i \in 1..Len(MONTHS) : MONTHS[i] = mon_s
    ELSE 0

\* m.group(1)[:3] of the words of the long form
FirstThree(word) ==
    CASE word = "February" -> "Feb"
      [] word = "December" -> "Dec"
      [] word = "Decimal"  -> "Dec"
      [] word = "Sunday"   -> "Sun"

IsLeap(y) == y % 4 = 0 /\ (y % 100 # 0 \/ y % 400 = 0)

DaysInMonth(y, mon) ==
    IF mon = 2 THEN (IF IsLeap(y) THEN 29 ELSE 28)
    ELSE IF mon \in {4, 6, 9, 11} THEN 30
    ELSE 31

\* datetime.date(y, mon, d) raises ValueError unless this holds
ValidDate(y, mon, d) ==
    /\ y >= 1 /\ y <= 9999
    /\ mon >= 1 /\ mon <= 12
    /\ d >= 1 /\ d <= DaysInMonth(y, mon)

Returned(start, end) == [raised |-> FALSE, start |-> start, end |-> end]
ValueError == [raised |-> TRUE, start |-> None, end |-> None]

\* lines 40-48: the first expression matched
ShortForm(mon_s, d1, d2, y) ==
    LET mon == MonthNumber(mon_s)
    IN  IF mon = 0 THEN Returned(None, None)
        ELSE IF ~ValidDate(y, mon, d1) THEN ValueError
        ELSE IF d2 = None THEN Returned(Some(<<y, mon, d1>>), Some(<<y, mon, d1>>))
        ELSE IF ~ValidDate(y, mon, d2[1]) THEN ValueError
        ELSE Returned(Some(<<y, mon, d1>>), Some(<<y, mon, d2[1]>>))

\* lines 51-59: the second expression matched
LongForm(word, d, y) ==
    LET mon == MonthNumber(FirstThree(word))
    IN  IF mon = 0 THEN Returned(None, None)
        ELSE IF ~ValidDate(y, mon, d) THEN ValueError
        ELSE Returned(Some(<<y, mon, d>>), Some(<<y, mon, d>>))

parse_date_range(text) ==
    IF text.form = "short" THEN ShortForm(text.month, text.d1, text.d2, text.y)
    ELSE IF text.form = "long" THEN LongForm(text.month, text.d1, text.y)
    ELSE Returned(None, None)

\* the texts given: days around the ends of the months, years before and in
\* a leap year and the year 0000, words that are months and words that only
\* look like one
DayTokens == {0, 1, 28, 29, 30, 31, 32}
YearTokens == {0, 2024, 2025}
DateTexts ==
    { [form |-> "short", month |-> mon_s, d1 |-> d1, d2 |-> d2, y |-> y] :
        mon_s \in {"Feb", "Apr", "Dec", "Sun"}, d1 \in DayTokens,
        d2 \in {None} \cup { Some(d) : d \in DayTokens }, y \in YearTokens }
    \cup
    { [form |-> "long", month |-> word, d1 |-> d, d2 |-> None, y |-> y] :
        word \in {"February", "December", "Decimal", "Sunday"},
        d \in DayTokens, y \in YearTokens }
    \cup
    { [form |-> "none", month |-> "", d1 |-> 0, d2 |-> None, y |-> 0] }

InitDates ==
    /\ InitIdle
    /\ IdleMerge /\ IdleVerify /\ IdleRace
    /\ pIn \in DateTexts
    /\ pOut = <<>>

\* parse_date_range(text)
CallParseDates ==
    /\ pOut = <<>>
    /\ pOut' = <<parse_date_range(pIn)>>
    /\ UNCHANGED <<serviceVars, mergeVars, pIn, verifyVars, raceVars>>

SpecDates == InitDates /\ [][CallParseDates]_vars

\* C15: parse_date_range never raises: whatever the text, it returns a pair,
\* which is (None, None) when the tokens it matched form no calendar date.
C15_NeverRaises ==
    pOut # <<>> =>
        /\ ~pOut[1].raised
        /\ (pIn.form = "short" /\ MonthNumber(pIn.month) # 0
               /\ ~ValidDate(pIn.y, MonthNumber(pIn.month), pIn.d1)) =>
              (pOut[1].start = None /\ pOut[1].end = None)

-----------------------------------------------------------------------------
(* criczop.py: fetch_live_verified.  Task i is guarded(candidate_urls[i]);  *)
(* the tasks run interleaved at their suspension points.                    *)

\* what fetch_match_page gives for a page: "failed" (fetch_text raised, it
\* returns None), "raised" (the parsing of the page raised, the task ends
\* with the exception) or the status classify_from_match_page found
Pages == {"failed", "raised", LIVE, RESULT}

\* tasks = [guarded(u) for u in candidate_urls[:MAX_LIVE_VERIFY]]
Tasks == DOMAIN vPc
InFlight == { i \in Tasks : vPc[i] = "fetch" }

InitVerify ==
    /\ InitIdle
    /\ IdleMerge /\ IdleParse /\ IdleRace
    /\ \E n \in 0..MaxCandidates : vCand = SubSeq(UrlSeq, 1, n)
    /\ vPc = [i \in 1..(IF Len(vCand) < MAX_LIVE_VERIFY
                         THEN Len(vCand) ELSE MAX_LIVE_VERIFY) |-> "wait"]
    /\ vPage = [i \in DOMAIN vPc |-> "none"]
    /\ vSem = MAX_CONCURRENCY
    /\ vPeak = 0
    /\ vOut = None

\* mutant: the task goes on to its fetch without the semaphore
Acquire_Unguarded(i) ==
    /\ vPc[i] = "wait"
    /\ vPc' = [vPc EXCEPT ![i] = "fetch"]
    /\ vSem' = vSem - 1
    /\ vPeak' = IF Cardinality(InFlight) + 1 > vPeak
                THEN Cardinality(InFlight) + 1 ELSE vPeak
    /\ UNCHANGED <<serviceVars, mergeVars, parseVars, raceVars, vCand, vPage, vOut>>

\* `async with sem:` entered, fetch_match_page(url) started
Acquire(i) ==
    /\ vPc[i] = "wait"
    /\ vSem > 0
    /\ vPc' = [vPc EXCEPT ![i] = "fetch"]
    /\ vSem' = vSem - 1
    /\ vPeak' = IF Cardinality(InFlight) + 1 > vPeak
                THEN Cardinality(InFlight) + 1 ELSE vPeak
    /\ UNCHANGED <<serviceVars, mergeVars, parseVars, raceVars, vCand, vPage, vOut>>

\* fetch_match_page(url) ended, `async with sem:` left
Complete(i, page) ==
    /\ vPc[i] = "fetch"
    /\ vPc' = [vPc EXCEPT ![i] = "done"]
    /\ vPage' = [vPage EXCEPT ![i] = page]
    /\ vSem' = vSem + 1
    /\ UNCHANGED <<serviceVars, mergeVars, parseVars, raceVars, vCand, vPeak, vOut>>

\* lines 181-207: the urls of the matches built from the results i, i+1, ..
RECURSIVE VerifiedFrom(_)
VerifiedFrom(i) ==
    IF i > Len(vPc) THEN <<>>
    ELSE IF vPage[i] = "raised" THEN VerifiedFrom(i + 1)
    ELSE IF vPage[i] = "failed" THEN VerifiedFrom(i + 1)
    ELSE IF vPage[i] # LIVE THEN VerifiedFrom(i + 1)
    ELSE <<vCand[i]>> \o VerifiedFrom(i + 1)

\* asyncio.gather returned: the results are gone through and the matches
\* returned
Gather ==
    /\ vOut = None
    /\ \A i \in Tasks : vPc[i] = "done"
    /\ vOut' = Some(VerifiedFrom(1))
    /\ UNCHANGED <<serviceVars, mergeVars, parseVars, raceVars,
                   vCand, vPc, vPage, vSem, vPeak>>

NextVerify ==
    \/ \E i \in Tasks : Acquire(i)
    \/ \E i \in Tasks, page \in Pages : Complete(i, page)
    \/ Gather

\* every task that can go on does: the event loop runs every ready task,
\* and a page fetch ends, at the latest by its timeout
SpecVerify ==
    /\ InitVerify
    /\ [][NextVerify]_vars
    /\ \A i \in 1..MAX_LIVE_VERIFY : WF_vars(i \in Tasks /\ Acquire(i))
    /\ \A i \in 1..MAX_LIVE_VERIFY :
          WF_vars(i \in Tasks /\ \E page \in Pages : Complete(i, page))
    /\ WF_vars(Gather)

VerifySafe ==
    /\ Cardinality(InFlight) <= MAX_CONCURRENCY
    /\ vPeak <= MAX_CONCURRENCY
    /\ Tasks \subseteq 1..MAX_LIVE_VERIFY
    /\ vOut # None =>
          /\ \A i \in Tasks : vPc[i] = "done"
          /\ \A i \in 1..Len(vCand) :
                (\E k \in 1..Len(vOut[1]) : vOut[1][k] = vCand[i])
                    <=> (i \in Tasks /\ vPage[i] = LIVE)
          /\ Len(vOut[1]) = Cardinality({ i \in Tasks : vPage[i] = LIVE })

\* C16: under every interleaving of the tasks, never more than
\* MAX_CONCURRENCY match pages are being fetched at once, only the first
\* MAX_LIVE_VERIFY candidates are fetched, the call eventually returns (every
\* task having completed), and what it returns are exactly the candidates
\* whose page was fetched and classified LIVE.
C16_BoundedVerification ==
    []VerifySafe /\ <>(vOut # None)

\* more candidates than are verified; the fetches filled the semaphore; one
\* page failed, one raised, one was no live match, and one match is returned
C16_Witness ==
    /\ vOut # None
    /\ Len(vCand) > MAX_LIVE_VERIFY
    /\ vPeak = MAX_CONCURRENCY
    /\ \E i \in Tasks : vPage[i] = "failed"
    /\ \E i \in Tasks : vPage[i] = "raised"
    /\ \E i \in Tasks : vPage[i] = RESULT
    /\ Len(vOut[1]) = 1

-----------------------------------------------------------------------------
(* Concurrent get_match_list calls of the default timezone.  A call is      *)
(* suspended only while an adapter fetches (line 61); what it does between   *)
(* two suspensions is one step.                                              *)

RaceZone == _tz(None)[1]

InitRace ==
    /\ now \in StartTimes
    /\ ticks = 0
    /\ cache = <<>>
    /\ call = NoCall
    /\ recorded = <<>>
    /\ IdleMerge /\ IdleParse /\ IdleVerify
    /\ racers = [c \in 1..RaceCalls |->
                    [pc |-> "start", today |-> 0, got |-> <<>>, resp |-> None]]
    /\ finished = <<>>

\* lines 73-79: the call starts; on a hit it returns, on a miss it goes on
\* to the adapters' fetches and is suspended there
RaceEnter(c) ==
    /\ racers[c].pc = "start"
    /\ LET today  == _today(RaceZone, now)
           cached == CacheGet(cache, <<"list", RaceZone, today>>, now)
       IN  racers' = [racers EXCEPT ![c] =
                        IF cached # None
                        THEN [pc |-> "done", today |-> today, got |-> <<>>,
                              resp |-> cached]
                        ELSE [pc |-> "await", today |-> today, got |-> <<>>,
                              resp |-> None]]
    /\ UNCHANGED <<serviceVars, mergeVars, parseVars, verifyVars, finished>>

\* lines 59-137: the adapters' fetches returned (or raised) with `results`;
\* the awaits between them touch the call's local list only, and after the
\* last one the call runs to its end without another suspension
RaceFinish(c, results) ==
    /\ racers[c].pc = "await"
    /\ LET build == ListBuild(cache, now, RaceZone, racers[c].today, results)
       IN  /\ cache' = build.cache
           /\ recorded' = Noted(recorded, build.cache, now)
           /\ racers' = [racers EXCEPT ![c] =
                            [pc |-> "done", today |-> @.today,
                             got |-> results, resp |-> build.resp]]
    /\ finished' = Append(finished, c)
    /\ UNCHANGED <<now, ticks, call, mergeVars, parseVars, verifyVars>>

\* a second passes while a call is suspended
RaceTick ==
    /\ \E c \in 1..RaceCalls : racers[c].pc = "await"
    /\ Tick(1)

RaceEnters == \E c \in 1..RaceCalls : RaceEnter(c)
RaceFinishes ==
    \E c \in 1..RaceCalls : \E results \in ServiceResults : RaceFinish(c, results)

NextRace == RaceEnters \/ RaceFinishes \/ RaceTick

\* ENABLED <<RaceFinishes>>_vars: a call waits for its adapters
RaceFinishEnabled == \E c \in 1..RaceCalls : racers[c].pc = "await"

\* The event loop runs every call that is ready, and an adapter's fetch
\* ends, at the latest by its timeout: weak fairness of both kinds of step.
\* The last conjunct is WF_vars(RaceFinishes) with its enabling condition
\* written out.
SpecRace ==
    /\ InitRace
    /\ [][NextRace]_vars
    /\ WF_vars(RaceEnters)
    /\ ([]<>(~RaceFinishEnabled) \/ []<><<RaceFinishes>>_vars)

\* the list entry and the url-map of the calls' zone and day, when the cache
\* holds them
RaceListKey == <<"list", RaceZone, _today(RaceZone, now)>>
RaceUrlKey == <<"urlmap", RaceZone>>

RaceSafe ==
    /\ \A c \in 1..RaceCalls :
          racers[c].pc = "done" =>
              /\ racers[c].resp # None
              /\ racers[c].resp[1].mode \in {"live", "upcoming", "mixed"}
              /\ racers[c].resp[1].timezone = RaceZone
    /\ finished # <<>> =>
          LET last == racers[finished[Len(finished)]]
          IN  /\ RaceListKey \in DOMAIN cache /\ RaceUrlKey \in DOMAIN cache
              /\ cache[RaceListKey].value = last.resp[1]
              /\ cache[RaceUrlKey].value = UrlMap(_fetch_all_sources(last.got))
              /\ cache[RaceUrlKey].expires - URLMAP_TTL_SECONDS
                    = cache[RaceListKey].value.generated_at
    /\ (RaceListKey \in DOMAIN cache /\ RaceUrlKey \in DOMAIN cache) =>
          LET items == cache[RaceListKey].value.items
          IN  \A i \in 1..Len(items) :
                /\ items[i].match_id \in DOMAIN cache[RaceUrlKey].value
                /\ cache[RaceUrlKey].value[items[i].match_id] = items[i].url

\* C17: get_match_list calls of one timezone and day that race on a cache
\* miss each return a whole result, and in every state the cached list and
\* the url-map were written by the same call, the one that finished last:
\* every item of the cached list has its line in the url-map; and every call
\* completes.
C17_RaceLastWriterWins ==
    []RaceSafe /\ <>(\A c \in 1..RaceCalls : racers[c].pc = "done")

\* two calls each ran a fetch cycle of their own, with different results,
\* and the cache holds what the one that finished last built
C17_Witness ==
    /\ Len(finished) >= 2
    /\ racers[finished[1]].resp[1].items # racers[finished[2]].resp[1].items
    /\ racers[finished[1]].resp[1].items # <<>>
    /\ racers[finished[2]].resp[1].items # <<>>
    /\ cache[RaceListKey].value.items = racers[finished[Len(finished)]].resp[1].items

=============================================================================
